---- MODULE Spec2Model ----
(***************************************************************************)
(* A model of synopsis.py: the tree that mirrors the working directory,    *)
(* the selected / expanded flags on its nodes, the curses selector loop    *)
(* that edits them, and the .llm_info store the selection is kept in.      *)
(*                                                                         *)
(* Text is a sequence of one-character strings.  Indices that the program  *)
(* keeps (current_index, window_pos) are 0-based as in the source; TLA+    *)
(* sequences are 1-based, so visible_list[i] of the source is              *)
(* visible_list[i + 1] here.                                               *)
(***************************************************************************)
EXTENDS Integers, Sequences, FiniteSets, TLC

\* ------------------------------------------------------------------ bounds

\* The terminal has between 5 and MaxHeight rows: the two header rows and at
\* least three rows of the list, which is what line 145 (current_index -
\* height + 5) reckons with.  The height does not change during a run.
MaxHeight == 5

Heights == 5..MaxHeight

\* Paths handed to the store codec on its own have at most MaxPathLen characters.
MaxPathLen == 3

\* ------------------------------------------------------------- characters

\* The characters of the model in code-point order: "\n" (10) < " " (32) <
\* "/" (47) < "a" (97) < "b" < ...
Alphabet == <<"\n", " ", "/", "a", "b", "c", "d", "e", "f", "g", "r", "s">>

Ord(c) == CHOOSE i \in 1..Len(Alphabet) : Alphabet[i] = c

\* str.strip() with no argument removes whitespace; of the alphabet, the
\* space and the newline are whitespace.
IsSpace(c) == c \in {" ", "\n"}

\* Python's < on str: the first differing character decides, a proper prefix
\* is smaller.
RECURSIVE StrLess(_, _)
StrLess(p, q) ==
    IF q = <<>> THEN FALSE
    ELSE IF p = <<>> THEN TRUE
    ELSE IF Head(p) # Head(q) THEN Ord(Head(p)) < Ord(Head(q))
    ELSE StrLess(Tail(p), Tail(q))

\* sorted(S) for a set of strings.
RECURSIVE Sorted(_)
Sorted(S) ==
    IF S = {} THEN <<>>
    ELSE LET m == CHOOSE x \in S : \A y \in S \ {x} : StrLess(x, y)
         IN  <<m>> \o Sorted(S \ {m})

RECURSIVE LStrip(_)
LStrip(s) ==
    IF s # <<>> /\ IsSpace(Head(s)) THEN LStrip(Tail(s)) ELSE s

RECURSIVE RStrip(_)
RStrip(s) ==
    IF s # <<>> /\ IsSpace(s[Len(s)]) THEN RStrip(SubSeq(s, 1, Len(s) - 1)) ELSE s

\* line.strip()
Strip(s) == LStrip(RStrip(s))

\* Iterating a text file: the lines of the text, each with its terminating
\* "\n" (the last one may have none).
RECURSIVE FileLines(_)
FileLines(text) ==
    IF text = <<>> THEN <<>>
    ELSE IF \E i \in 1..Len(text) : text[i] = "\n"
         THEN LET k == CHOOSE i \in 1..Len(text) :
                         /\ text[i] = "\n"
                         /\ \A j \in 1..(i - 1) : text[j] # "\n"
              IN  <<SubSeq(text, 1, k)>> \o FileLines(SubSeq(text, k + 1, Len(text)))
         ELSE <<text>>

\* ------------------------------------------------------------ store codec

\* set(line.strip() for line in f if line.strip())
Decode(text) ==
    LET lines == FileLines(text)
    IN  {Strip(lines[i]) : i \in {j \in 1..Len(lines) : Strip(lines[j]) # <<>>}}

\* for path in sorted(selected_files): f.write(path + "\n")
RECURSIVE WriteLines(_)
WriteLines(paths) ==
    IF paths = <<>> THEN <<>>
    ELSE Head(paths) \o <<"\n">> \o WriteLines(Tail(paths))

Encode(S) == WriteLines(Sorted(S))

\* ------------------------------------------------------------- filesystem

\* The working directory as os.listdir / os.path.isdir show it.  Entry 1 is
\* the directory itself; listdir[d] is the listing of d in the (arbitrary)
\* order the operating system returns it.
\*
\*   FsSrc:     r  s/{a, b, c}                 (a file and a directory of files)
\*   FsNested:  d/{g/{b, c}}  e/  f            (nesting, and an empty directory e)
\*   FsEmpty:   an empty working directory
FsSrc ==
    [name    |-> << <<>>, <<"s">>, <<"a">>, <<"b">>, <<"c">>, <<"r">> >>,
     isdir   |-> <<TRUE, TRUE, FALSE, FALSE, FALSE, FALSE>>,
     listdir |-> << <<6, 2>>, <<4, 5, 3>>, <<>>, <<>>, <<>>, <<>> >>]

FsNested ==
    [name    |-> << <<>>, <<"d">>, <<"e">>, <<"f">>, <<"g">>, <<"b">>, <<"c">> >>,
     isdir   |-> <<TRUE, TRUE, TRUE, FALSE, TRUE, FALSE, FALSE>>,
     listdir |-> << <<4, 3, 2>>, <<5>>, <<>>, <<>>, <<7, 6>>, <<>>, <<>> >>]

FsEmpty ==
    [name    |-> << <<>> >>,
     isdir   |-> <<TRUE>>,
     listdir |-> << <<>> >>]

FileSystems == {FsSrc, FsNested, FsEmpty}

\* What .llm_info may hold when the program starts: the store texts tried
\* for each working directory (Absent: the file does not exist).
Absent == [exists |-> FALSE, text |-> <<>>]

\* .llm_info holding the given text.
StoreFile(text) == [exists |-> TRUE, text |-> text]

StoreTexts(f) ==
    IF f = FsSrc THEN
        { <<>>,
          <<"s", "/", "a", "\n", "s", "/", "b", "\n">>,
          <<"s", "/", "c", "\n", "s", "/", "b", "\n", "\n", " ", "s", "/", "a", " ", "\n">>,
          <<"r", "\n", "s", "\n", "g", "\n">> }
    ELSE IF f = FsNested THEN
        { <<"\n", " ", "\n">>,
          <<"d", "/", "g", "/", "b">>,
          <<"f", "\n", "d", "/", "g", "/", "c", "\n", "e", "\n">>,
          <<"d", "/", "g", "/", "c", "\n", "d", "/", "g", "/", "b", "\n",
            "d", "/", "g", "/", "c", "\n">> }
    ELSE { <<>>, <<"a", "\n">> }

VARIABLES
    fs,             \* the working directory (never written by the program)
    store,          \* .llm_info: whether it exists, and its text
    store0,         \* history: the store when the program started
    edit,           \* args.edit
    height,         \* stdscr.getmaxyx()[0]
    pc,             \* where the script is
    selected_files, \* the global selected_files
    children,       \* Dir.children of every node (<<>> for a file)
    selected,       \* Node.selected of every node
    expanded,       \* Dir.expanded of every directory
    current_index,  \* interactive_selector: current_index
    window_pos,     \* interactive_selector: window_pos
    toggled,        \* history: None before any SPACE key, the node the one
                    \* SPACE key inverted, Many after more than one
    output          \* the document: whether it was printed, its entries, and
                    \* whether the clipboard took it

vars == <<fs, store, store0, edit, height, pc, selected_files, children, selected,
          expanded, current_index, window_pos, toggled, output>>

\* ------------------------------------------------------------------- tree

Root == 1

\* None, where a node is expected.
None == 0

\* invert's direction: NoDirection for None, <<b>> for the boolean b.
NoDirection == <<>>

\* More than one SPACE key has been handled.
Many == -1

Nodes == 1..Len(fs.name)

IsDir(n) == fs.isdir[n]

Dirs == {n \in Nodes : IsDir(n)}

Files == {n \in Nodes : ~IsDir(n)}

Range(s) == {s[i] : i \in 1..Len(s)}

\* Node.parent: the Dir whose constructor made the node, None for the root.
Parent(n) ==
    IF n = Root THEN None
    ELSE CHOOSE d \in Nodes : n \in Range(fs.listdir[d])

\* Node.path: os.path.join(path, child), the root's path being "".
RECURSIVE NodePath(_)
NodePath(n) ==
    IF n = Root THEN <<>>
    ELSE IF Parent(n) = Root THEN fs.name[n]
    ELSE NodePath(Parent(n)) \o <<"/">> \o fs.name[n]

\* The sort key (not isinstance(x, Dir), x.name), compared as Python
\* compares tuples: False < True, then the names.
KeyLess(x, y) ==
    IF IsDir(x) # IsDir(y) THEN IsDir(x)
    ELSE StrLess(fs.name[x], fs.name[y])

\* self.children.sort(key=...)
RECURSIVE SortNodes(_)
SortNodes(S) ==
    IF S = {} THEN <<>>
    ELSE LET m == CHOOSE x \in S : \A y \in S \ {x} : KeyLess(x, y)
         IN  <<m>> \o SortNodes(S \ {m})

\* Dir.__init__, lines 39-49: one child per listed name, then sorted.
BuildChildren(n) ==
    IF IsDir(n) THEN SortNodes(Range(fs.listdir[n])) ELSE <<>>

\* Node.__init__: self.selected = path in selected_files
NodeSelectedByName(n) == fs.name[n] \in selected_files

NodeSelected(n) == NodePath(n) \in selected_files

\* Dir.__init__, lines 51 and 56, from the children's selected values.
DirSelectedAny(sel) == (\E i \in 1..Len(sel) : sel[i]) /\ Len(sel) > 0

DirSelectedNoLen(sel) == \A i \in 1..Len(sel) : sel[i]

DirSelected(sel) == (\A i \in 1..Len(sel) : sel[i]) /\ Len(sel) > 0

\* Dir.__init__, lines 52-55 and 57, from the children's selected values and
\* from isinstance(child, Dir) and child.expanded.
DirExpandedSelectedOnly(sel, exp) == (\E i \in 1..Len(sel) : sel[i]) /\ Len(sel) > 0

DirExpanded(sel, exp) == (\E i \in 1..Len(sel) : sel[i] \/ exp[i]) /\ Len(sel) > 0

\* The selected flag every constructor leaves on its node: children first.
RECURSIVE InitSelected(_)
InitSelected(n) ==
    IF IsDir(n)
    THEN LET cs == BuildChildren(n)
         IN  DirSelected([i \in 1..Len(cs) |-> InitSelected(cs[i])])
    ELSE NodeSelected(n)

\* The expanded flag every Dir constructor leaves on its node (a file has none:
\* FALSE stands for isinstance(child, Dir) and child.expanded).
RECURSIVE InitExpanded(_)
InitExpanded(n) ==
    IF IsDir(n)
    THEN LET cs == BuildChildren(n)
         IN  DirExpanded([i \in 1..Len(cs) |-> InitSelected(cs[i])],
                         [i \in 1..Len(cs) |-> InitExpanded(cs[i])])
    ELSE FALSE

\* --------------------------------------------------------------- selector

\* get_visible_nodes(node, depth): the node, then, for an expanded Dir, its
\* children's lists in order.  Entries are <<node, depth>>.
RECURSIVE get_visible_nodes(_, _)
RECURSIVE VisibleOfChildren(_, _)
GetAllNodes(n, depth) ==
    <<  <<n, depth>>  >> \o
    (IF IsDir(n) THEN VisibleOfChildren(children[n], depth + 1) ELSE <<>>)

get_visible_nodes(n, depth) ==
    <<  <<n, depth>>  >> \o
    (IF IsDir(n) /\ expanded[n] THEN VisibleOfChildren(children[n], depth + 1) ELSE <<>>)

VisibleOfChildren(cs, depth) ==
    IF cs = <<>> THEN <<>>
    ELSE get_visible_nodes(Head(cs), depth) \o VisibleOfChildren(Tail(cs), depth)

\* visible_list = get_visible_nodes(root, -1)[1:]
visible_list == Tail(get_visible_nodes(Root, -1))

\* invert(node, direction) applied to the selected flags sel: the flags it leaves.
RECURSIVE invert(_, _, _)
RECURSIVE InvertChildren(_, _, _)
InvertNoPropagation(sel, n, direction) ==
    [sel EXCEPT ![n] = IF direction # NoDirection THEN direction[1] ELSE ~sel[n]]

InvertAndParent(sel, n, direction) ==
    LET s1 == [sel EXCEPT ![n] = IF direction # NoDirection THEN direction[1] ELSE ~sel[n]]
        s2 == IF IsDir(n) THEN InvertChildren(s1, children[n], <<s1[n]>>) ELSE s1
    IN  IF n # Root THEN [s2 EXCEPT ![Parent(n)] = s1[n]] ELSE s2

invert(sel, n, direction) ==
    LET s1 == [sel EXCEPT ![n] = IF direction # NoDirection THEN direction[1] ELSE ~sel[n]]
    IN  IF IsDir(n) THEN InvertChildren(s1, children[n], <<s1[n]>>) ELSE s1

InvertChildren(sel, cs, direction) ==
    IF cs = <<>> THEN sel
    ELSE InvertChildren(invert(sel, Head(cs), direction), Tail(cs), direction)

\* collect_selected(node): the list of the selected files' paths below node.
RECURSIVE collect_selected(_)
RECURSIVE CollectChildren(_)
CollectSelectedVisible(n) ==
    IF IsDir(n)
    THEN IF expanded[n] THEN CollectChildren(children[n]) ELSE <<>>
    ELSE IF selected[n] THEN <<NodePath(n)>> ELSE <<>>

collect_selected(n) ==
    IF IsDir(n) THEN CollectChildren(children[n])
    ELSE IF selected[n] THEN <<NodePath(n)>> ELSE <<>>

CollectChildren(cs) ==
    IF cs = <<>> THEN <<>>
    ELSE collect_selected(Head(cs)) \o CollectChildren(Tail(cs))

Max(a, b) == IF a >= b THEN a ELSE b

Min(a, b) == IF a <= b THEN a ELSE b

\* len(header)
HeaderRows == 2

\* Nothing printed, nothing offered to the clipboard.
NotPrinted == [printed |-> FALSE, entries |-> <<>>, copied |-> FALSE]

\* The two contents an entry of the document may carry: the file's text, or
\* the placeholder f"[Error reading file: {e}]" of line 372.
FileText == "file text"

ErrorText == "[Error reading file]"

\* open(full_path) or f.read() raises for path p: p names no file of the
\* working directory (a stale line of the store, or a directory), or p is the
\* file that cannot be read at the time of the output (NoPath: there is none).
NoPath == <<>>

ReadFails(p, unreadable) ==
    \/ p \notin {NodePath(f) : f \in Files}
    \/ p = unreadable

\* Lines 364-378: one entry per path, in the order given; a failed read gives
\* the placeholder and the loop goes on.
RECURSIVE RenderEntries(_, _)
RenderEntriesStopAtError(paths, unreadable) ==
    IF paths = <<>> \/ ReadFails(Head(paths), unreadable) THEN <<>>
    ELSE <<[path |-> Head(paths), content |-> FileText]>>
             \o RenderEntries(Tail(paths), unreadable)

RenderEntries(paths, unreadable) ==
    IF paths = <<>> THEN <<>>
    ELSE <<[path    |-> Head(paths),
            content |-> IF ReadFails(Head(paths), unreadable)
                        THEN ErrorText ELSE FileText]>>
             \o RenderEntries(Tail(paths), unreadable)

\* ---------------------------------------------------------------- actions

Init ==
    /\ fs \in FileSystems
    /\ store \in {Absent} \cup {StoreFile(t) : t \in StoreTexts(fs)}
    /\ store0 = store
    /\ edit \in BOOLEAN
    /\ height \in Heights
    /\ pc = "start"
    /\ selected_files = {}
    /\ children = <<>>
    /\ selected = <<>>
    /\ expanded = <<>>
    /\ current_index = 0
    /\ window_pos = 0
    /\ toggled = None
    /\ output = NotPrinted

\* Lines 199-202: .llm_info, when it exists, is decoded into selected_files.
ReadStore ==
    /\ pc = "start"
    /\ selected_files' = IF store.exists THEN Decode(store.text) ELSE selected_files
    /\ pc' = "read"
    /\ UNCHANGED <<fs, store, store0, edit, height, children, selected, expanded,
                   current_index, window_pos, toggled, output>>

\* Lines 203-205: reading the store raises; the script reports it and exits 1.
ReadStoreFails ==
    /\ pc = "start"
    /\ store.exists
    /\ pc' = "exit1"
    /\ UNCHANGED <<fs, store, store0, edit, height, selected_files, children, selected,
                   expanded, current_index, window_pos, toggled, output>>

\* Line 208 false: no selection session, on to the output.
SkipSessionIgnoringEdit ==
    /\ pc = "read"
    /\ Cardinality(selected_files) # 0
    /\ pc' = "output"
    /\ UNCHANGED <<fs, store, store0, edit, height, selected_files, children, selected,
                   expanded, current_index, window_pos, toggled, output>>

SkipSession ==
    /\ pc = "read"
    /\ ~(Cardinality(selected_files) = 0 \/ edit)
    /\ pc' = "output"
    /\ UNCHANGED <<fs, store, store0, edit, height, selected_files, children, selected,
                   expanded, current_index, window_pos, toggled, output>>

\* Line 208 true, line 210: root = Dir(os.path.basename(directory), "", None).
BuildTree ==
    /\ pc = "read"
    /\ Cardinality(selected_files) = 0 \/ edit
    /\ children' = [n \in Nodes |-> BuildChildren(n)]
    /\ selected' = [n \in Nodes |-> InitSelected(n)]
    /\ expanded' = [n \in Nodes |-> InitExpanded(n)]
    /\ pc' = "built"
    /\ UNCHANGED <<fs, store, store0, edit, height, selected_files,
                   current_index, window_pos, toggled, output>>

\* Line 211: root.expanded = True; then lines 213 and 82-90: the selector starts.
StartSession ==
    /\ pc = "built"
    /\ expanded' = [expanded EXCEPT ![Root] = TRUE]
    /\ current_index' = 0
    /\ window_pos' = 0
    /\ pc' = "session"
    /\ UNCHANGED <<fs, store, store0, edit, height, selected_files, children, selected,
                   toggled, output>>

\* What no key handler of the selector writes.
SessionFrame == UNCHANGED <<fs, store, store0, edit, height, selected_files, children, output>>

\* visible_list[current_index] raises IndexError.
IndexError == current_index >= Len(visible_list)

\* The node under the cursor: visible_list[current_index][0].
CursorNode == visible_list[current_index + 1][1]

\* Lines 137-140: KEY_UP or k.
KeyUpWithoutScroll ==
    /\ pc = "session"
    /\ IF current_index > 0
       THEN /\ current_index' = current_index - 1
            /\ UNCHANGED window_pos
       ELSE UNCHANGED <<current_index, window_pos>>
    /\ UNCHANGED <<pc, selected, expanded, toggled>>
    /\ SessionFrame

KeyUp ==
    /\ pc = "session"
    /\ IF current_index > 0
       THEN /\ current_index' = current_index - 1
            /\ window_pos' = Max(0, Min(window_pos, current_index' - 3))
       ELSE UNCHANGED <<current_index, window_pos>>
    /\ UNCHANGED <<pc, selected, expanded, toggled>>
    /\ SessionFrame

\* Lines 142-145: KEY_DOWN or j.
KeyDown ==
    /\ pc = "session"
    /\ IF current_index < Len(visible_list) - 1
       THEN /\ current_index' = current_index + 1
            /\ window_pos' = Max(0, Max(window_pos, current_index' - height + 5))
       ELSE UNCHANGED <<current_index, window_pos>>
    /\ UNCHANGED <<pc, selected, expanded, toggled>>
    /\ SessionFrame

\* The first i with visible_list[i][0] == node, 0 when there is none (lines 153-157).
IndexOf(node) ==
    IF \E i \in 1..Len(visible_list) : visible_list[i][1] = node
    THEN (CHOOSE i \in 1..Len(visible_list) :
              /\ visible_list[i][1] = node
              /\ \A j \in 1..(i - 1) : visible_list[j][1] # node) - 1
    ELSE 0

\* An uncaught exception leaves the selector and the script (curses.wrapper
\* restores the terminal and re-raises).
Crash ==
    /\ pc' = "crashed"
    /\ UNCHANGED <<selected, expanded, current_index, window_pos, toggled>>

\* Lines 147-157: KEY_LEFT or h.
KeyLeftCursorStays ==
    /\ pc = "session"
    /\ IF IndexError THEN Crash
       ELSE LET node == CursorNode IN
            IF IsDir(node) /\ expanded[node]
            THEN /\ expanded' = [expanded EXCEPT ![node] = FALSE]
                 /\ UNCHANGED <<pc, selected, current_index, window_pos, toggled>>
            ELSE IF Parent(node) # None /\ Parent(Parent(node)) # None
            THEN /\ expanded' = [expanded EXCEPT ![Parent(node)] = FALSE]
                 /\ UNCHANGED <<pc, selected, current_index, window_pos, toggled>>
            ELSE UNCHANGED <<pc, selected, expanded, current_index, window_pos,
                             toggled>>
    /\ SessionFrame

KeyLeft ==
    /\ pc = "session"
    /\ IF IndexError THEN Crash
       ELSE LET node == CursorNode IN
            IF IsDir(node) /\ expanded[node]
            THEN /\ expanded' = [expanded EXCEPT ![node] = FALSE]
                 /\ UNCHANGED <<pc, selected, current_index, window_pos, toggled>>
            ELSE IF Parent(node) # None /\ Parent(Parent(node)) # None
            THEN /\ expanded' = [expanded EXCEPT ![Parent(node)] = FALSE]
                 /\ current_index' = IndexOf(Parent(node))
                 /\ UNCHANGED <<pc, selected, window_pos, toggled>>
            ELSE UNCHANGED <<pc, selected, expanded, current_index, window_pos,
                             toggled>>
    /\ SessionFrame

\* Lines 159-162: KEY_RIGHT or l.
KeyRight ==
    /\ pc = "session"
    /\ IF IndexError THEN Crash
       ELSE LET node == CursorNode IN
            IF IsDir(node) /\ ~expanded[node]
            THEN /\ expanded' = [expanded EXCEPT ![node] = TRUE]
                 /\ UNCHANGED <<pc, selected, current_index, window_pos, toggled>>
            ELSE UNCHANGED <<pc, selected, expanded, current_index, window_pos,
                             toggled>>
    /\ SessionFrame

\* Lines 164-166: SPACE.
KeySpace ==
    /\ pc = "session"
    /\ IF IndexError THEN Crash
       ELSE /\ selected' = invert(selected, CursorNode, NoDirection)
            /\ toggled' = IF toggled = None THEN CursorNode ELSE Many
            /\ UNCHANGED <<pc, expanded, current_index, window_pos>>
    /\ SessionFrame

\* Lines 168-169: q; sys.exit(0) ends the script.
QuitSaving ==
    /\ pc = "session"
    /\ pc' = "quit"
    /\ store' = StoreFile(Encode(Range(collect_selected(Root))))
    /\ UNCHANGED <<fs, store0, edit, height, selected_files, children, output,
                   selected, expanded, current_index, window_pos, toggled>>

KeyQuit ==
    /\ pc = "session"
    /\ pc' = "quit"
    /\ UNCHANGED <<selected, expanded, current_index, window_pos, toggled>>
    /\ SessionFrame

\* Any other key: no branch of the chain matches, the loop reads the next key.
KeyOther ==
    /\ pc = "session"
    /\ UNCHANGED <<pc, selected, expanded, current_index, window_pos, toggled>>
    /\ SessionFrame

\* Lines 171-172, 184 and 213: ENTER; the loop ends and the selector's result,
\* set(collect_selected(root)), becomes selected_files.
KeyEnter ==
    /\ pc = "session"
    /\ selected_files' = Range(collect_selected(Root))
    /\ pc' = "finished"
    /\ UNCHANGED <<fs, store, store0, edit, height, children, output,
                   selected, expanded, current_index, window_pos, toggled>>

\* Lines 215-218: the selection is written to .llm_info.
WriteStore ==
    /\ pc = "finished"
    /\ store' = StoreFile(Encode(selected_files))
    /\ pc' = "output"
    /\ UNCHANGED <<fs, store0, edit, height, selected_files, children, selected, expanded,
                   current_index, window_pos, toggled, output>>

\* Lines 219-221: writing raises; open(..., "w") either failed (the store is
\* as it was) or had already truncated the file.
WriteStoreFails ==
    /\ pc = "finished"
    /\ store' \in {store, StoreFile(<<>>)}
    /\ pc' = "exit1"
    /\ UNCHANGED <<fs, store0, edit, height, selected_files, children, selected, expanded,
                   current_index, window_pos, toggled, output>>

\* Lines 363-386: one entry per path of sorted(selected_files) is put into
\* the document, and the document is printed.
PrintOutput ==
    /\ pc = "output"
    /\ \E unreadable \in {NoPath} \cup selected_files :
           output' = [printed |-> TRUE,
                      entries |-> RenderEntries(Sorted(selected_files), unreadable),
                      copied  |-> FALSE]
    /\ pc' = "printed"
    /\ UNCHANGED <<fs, store, store0, edit, height, selected_files, children, selected,
                   expanded, current_index, window_pos, toggled>>

\* Lines 388-400: the document is handed to the clipboard program.
CopyToClipboard ==
    /\ pc = "printed"
    /\ output' = [output EXCEPT !.copied = TRUE]
    /\ pc' = "done"
    /\ UNCHANGED <<fs, store, store0, edit, height, selected_files, children, selected,
                   expanded, current_index, window_pos, toggled>>

\* Lines 402-403: the copy raises; the failure is reported and the script ends.
CopyToClipboardFails ==
    /\ pc = "printed"
    /\ pc' = "done"
    /\ UNCHANGED <<fs, store, store0, edit, height, selected_files, children, selected,
                   expanded, current_index, window_pos, toggled, output>>

Next ==
    \/ ReadStore
    \/ ReadStoreFails
    \/ SkipSession
    \/ BuildTree
    \/ StartSession
    \/ KeyUp
    \/ KeyDown
    \/ KeyLeft
    \/ KeyRight
    \/ KeySpace
    \/ KeyQuit
    \/ KeyOther
    \/ KeyEnter
    \/ WriteStore
    \/ WriteStoreFails
    \/ PrintOutput
    \/ CopyToClipboard
    \/ CopyToClipboardFails

Spec == Init /\ [][Next]_vars

\* ------------------------------------------------------ the codec on its own

\* The characters of the paths given to the codec: a letter, a space, the
\* separator.
CodecChars == {"a", " ", "/"}

\* The relative paths of at most MaxPathLen characters: one or more names
\* separated by "/", no name empty.
CodecPaths ==
    {p \in UNION {[1..k -> CodecChars] : k \in 1..MaxPathLen} :
        /\ p[1] # "/"
        /\ p[Len(p)] # "/"
        /\ \A i \in 1..(Len(p) - 1) : ~(p[i] = "/" /\ p[i + 1] = "/")}

\* A selection of at most two such paths is about to be saved.
InitCodec ==
    /\ fs = FsEmpty
    /\ store = Absent
    /\ store0 = Absent
    /\ edit = FALSE
    /\ height = 5
    /\ pc = "save"
    /\ selected_files \in {{p, q} : p, q \in CodecPaths} \cup {{}}
    /\ children = <<>>
    /\ selected = <<>>
    /\ expanded = <<>>
    /\ current_index = 0
    /\ window_pos = 0
    /\ toggled = None
    /\ output = NotPrinted

\* Lines 216-218 on their own: selected_files is written to the store.
CodecWrite ==
    /\ pc = "save"
    /\ store' = StoreFile(Encode(selected_files))
    /\ pc' = "saved"
    /\ UNCHANGED <<fs, store0, edit, height, selected_files, children, selected, expanded,
                   current_index, window_pos, toggled, output>>

\* Lines 201-202 on their own, in the next run: the store is read back.
CodecRead ==
    /\ pc = "saved"
    /\ selected_files' = Decode(store.text)
    /\ pc' = "loaded"
    /\ UNCHANGED <<fs, store, store0, edit, height, children, selected, expanded,
                   current_index, window_pos, toggled, output>>

NextCodec ==
    \/ CodecWrite
    \/ CodecRead

SpecCodec == InitCodec /\ [][NextCodec]_vars

\* ------------------------------------------------- definitions for the claims

\* The tree has been built (the constructors have run).
TreeBuilt == DOMAIN selected = Nodes

\* d is n or an ancestor of n, following Node.parent.
RECURSIVE IsUnder(_, _)
IsUnder(n, d) ==
    IF n = d THEN TRUE
    ELSE IF n = Root THEN FALSE
    ELSE IsUnder(Parent(n), d)

Subtree(d) == {n \in Nodes : IsUnder(n, d)}

\* The leaf-path set the program started from.
InitialSelection == IF store0.exists THEN Decode(store0.text) ELSE {}

\* D.selected == (len(C) > 0 and all(c.selected for c in C)) for every directory.
RollUp ==
    \A d \in Dirs :
        selected[d] = (Len(children[d]) > 0 /\ \A c \in Range(children[d]) : selected[c])

\* The paths of the File nodes whose selected flag is set.
SelectedFilePaths == {NodePath(f) : f \in {x \in Files : selected[x]}}

\* C1: SPACE with the cursor on a directory D sets selected on D and on every
\* node of D's subtree to the complement of D's previous value; and from an
\* empty initial selection, one SPACE on a directory D and then ENTER returns
\* exactly the paths of the files under D.
C1_ToggleDirectory ==
    /\ [][\A d \in Dirs :
            (pc = "session" /\ ~IndexError /\ CursorNode = d /\ KeySpace)
                => \A n \in Subtree(d) : selected'[n] = ~selected[d]]_vars
    /\ [](  (pc = "finished" /\ InitialSelection = {} /\ toggled \in Dirs)
              => selected_files = {NodePath(f) : f \in Files \cap Subtree(toggled)})

C1_Witness ==
    /\ pc = "finished"
    /\ InitialSelection = {}
    /\ toggled \in Dirs
    /\ Cardinality(selected_files) = 2

\* C2: right after the tree is built from selected_files, a File is selected
\* iff its path is in selected_files and a Directory iff it has a child and
\* all its children are selected; with s/a and s/b stored and s/{a, b, c} on
\* disk, s is not selected.
C2_InitialSelected ==
    pc = "built" =>
        /\ \A f \in Files : selected[f] = (NodePath(f) \in selected_files)
        /\ RollUp
        /\ (fs = FsSrc /\ selected_files = {<<"s", "/", "a">>, <<"s", "/", "b">>})
               => ~selected[2]

C2_Witness ==
    /\ pc = "built"
    /\ fs = FsSrc
    /\ selected_files = {<<"s", "/", "a">>, <<"s", "/", "b">>}
    /\ selected[3] /\ selected[4] /\ ~selected[5] /\ ~selected[2]

\* C3 as stated: the roll-up equation holds in every state of the session.
C3_RollUpAlways == TreeBuilt => RollUp

\* C3 as amended: the roll-up equation holds once the tree is built and for
\* as long as no SPACE key has been handled, whatever keys moved the cursor
\* and expanded or collapsed directories.
C3_RollUpUntilToggle == (TreeBuilt /\ toggled = None) => RollUp

C3_Witness ==
    /\ pc = "session"
    /\ toggled = None
    /\ current_index > 0
    /\ \E d \in Dirs \ {Root} : selected[d] /\ ~expanded[d]
    /\ \E d \in Dirs \ {Root} : ~selected[d] /\ expanded[d] /\ children[d] = <<>>

\* C4: a directory with zero children is never selected and never expanded,
\* in any state of the session.  (Stated for the directories below the root;
\* the root is expanded by the script itself before the session.)
C4_ChildlessNeverSelectedOrExpanded ==
    TreeBuilt =>
        \A d \in Dirs \ {Root} :
            children[d] = <<>> => (~selected[d] /\ ~expanded[d])

\* C5: right after the tree is built, a directory below the root that has a
\* child is expanded iff a child is selected or a child directory is expanded,
\* and a directory with no child is not expanded; the root is expanded from
\* the start of the session on.
C5_InitialExpanded ==
    /\ pc = "built" =>
          \A d \in Dirs \ {Root} :
              IF Len(children[d]) > 0
              THEN expanded[d] =
                       (\E c \in Range(children[d]) :
                            selected[c] \/ (IsDir(c) /\ expanded[c]))
              ELSE ~expanded[d]
    /\ pc = "session" => expanded[Root]

C5_Witness ==
    /\ pc = "built"
    /\ \E d \in Dirs \ {Root} :
           /\ expanded[d]
           /\ \A c \in Range(children[d]) : ~selected[c]
    /\ \E d \in Dirs \ {Root} : children[d] = <<>> /\ ~expanded[d]

\* C6: a collapse key never raises; with the cursor on a file or on a
\* directory that is not expanded, it collapses the parent and leaves the
\* cursor on the parent's row when the parent is not the root, and changes
\* nothing when the parent is the root.
C6_CollapseBubblesUp ==
    [][(pc = "session" /\ KeyLeft) =>
          /\ pc' = "session"
          /\ ~IndexError =>
                LET n == CursorNode IN
                ~(IsDir(n) /\ expanded[n]) =>
                    IF Parent(n) # Root
                    THEN /\ expanded'[Parent(n)] = FALSE
                         /\ visible_list'[current_index' + 1][1] = Parent(n)
                    ELSE UNCHANGED vars]_vars

\* C7: an expand key changes the state only with the cursor on a collapsed
\* directory that has a child, and then only that directory's expanded flag,
\* to true.
C7_ExpandOnlyCollapsedWithChildren ==
    [][(pc = "session" /\ ~IndexError /\ KeyRight) =>
          LET n == CursorNode IN
          IF IsDir(n) /\ ~expanded[n] /\ Len(children[n]) > 0
          THEN /\ expanded' = [expanded EXCEPT ![n] = TRUE]
               /\ UNCHANGED <<fs, store, store0, edit, height, pc, selected_files,
                              children, selected, current_index, window_pos,
                              toggled, output>>
          ELSE UNCHANGED vars]_vars

\* C8: what ENTER returns is exactly the set of the paths of the selected
\* File nodes, whatever the directories' flags are, and that set, one path
\* per line, is what the store then holds.
C8_FinishReturnsSelectedFiles ==
    /\ pc = "finished" => selected_files = SelectedFilePaths
    /\ (pc = "output" /\ TreeBuilt) =>
          LET lines == FileLines(store.text) IN
          /\ store.exists
          /\ Len(lines) = Cardinality(SelectedFilePaths)
          /\ {SubSeq(lines[i], 1, Len(lines[i]) - 1) : i \in 1..Len(lines)}
                 = SelectedFilePaths
          /\ \A i \in 1..Len(lines) : lines[i][Len(lines[i])] = "\n"

C8_Witness ==
    /\ pc = "output"
    /\ TreeBuilt
    /\ \E f \in Files : selected[f] /\ ~expanded[Parent(f)]
    /\ \E f \in Files : ~selected[f] /\ selected[Parent(f)]
    /\ \E d \in Dirs \ {Root} : selected[d] /\ children[d] = <<>>

\* C9: after q the script has ended with the store as it was when the
\* program started and with nothing printed, and the store is written only
\* once ENTER has ended the session.
C9_QuitWritesNothing ==
    /\ [](pc = "quit" => (store = store0 /\ ~output.printed))
    /\ [][pc # "quit"]_vars
    /\ [][store' # store => pc = "finished"]_vars

C9_Witness ==
    /\ pc = "quit"
    /\ toggled = Many
    /\ store0.exists
    /\ SelectedFilePaths # InitialSelection
    /\ SelectedFilePaths # {}

\* C10: decoding the encoding of a set of relative paths gives the set back:
\* reading the store that was just written leaves selected_files as it was.
C10_RoundTrip == [][CodecRead => selected_files' = selected_files]_vars

\* C11: the tree is built and the session runs exactly when the store is
\* absent or decodes to the empty set or --edit is given; otherwise the
\* script goes to the output with no tree, no session and the store untouched.
C11_SessionIffEmptyOrEdit ==
    /\ TreeBuilt => (InitialSelection = {} \/ edit)
    /\ pc \in {"output", "printed", "done"} =>
          IF InitialSelection = {} \/ edit
          THEN TreeBuilt
          ELSE /\ ~TreeBuilt
               /\ children = <<>> /\ selected = <<>> /\ expanded = <<>>
               /\ toggled = None /\ current_index = 0 /\ window_pos = 0
               /\ store = store0
               /\ selected_files = InitialSelection

C11_Witness ==
    /\ pc = "done"
    /\ ~TreeBuilt
    /\ ~edit
    /\ store0.exists
    /\ Cardinality(InitialSelection) = 3
    /\ output.printed

\* The paths of the document's entries, in order.
EntryPaths == [i \in 1..Len(output.entries) |-> output.entries[i].path]

\* C12: the document has exactly one entry per path of selected_files, in
\* sorted order; an entry whose file could not be read carries the
\* placeholder and the entries after it are there all the same; the document
\* is printed and the script reaches its end whether or not the clipboard
\* copy fails.
C12_OutputOneEntryPerPath ==
    /\ [](pc \in {"printed", "done"} =>
            /\ output.printed
            /\ Len(output.entries) = Cardinality(selected_files)
            /\ Range(EntryPaths) = selected_files
            /\ \A i \in 1..(Len(output.entries) - 1) :
                   StrLess(EntryPaths[i], EntryPaths[i + 1])
            /\ \A i \in 1..Len(output.entries) :
                   /\ output.entries[i].content \in {FileText, ErrorText}
                   /\ EntryPaths[i] \notin {NodePath(f) : f \in Files}
                          => output.entries[i].content = ErrorText)
    /\ [][pc = "output" => (pc' = "printed" /\ output'.printed)]_vars
    /\ [][pc = "printed" => (pc' = "done" /\ output'.printed
                              /\ output'.entries = output.entries)]_vars

C12_Witness ==
    /\ pc = "done"
    /\ ~output.copied
    /\ Len(output.entries) = 3
    /\ output.entries[1].content = ErrorText
    /\ output.entries[2].content = FileText
    /\ output.entries[3].content = ErrorText

\* The nodes of a list of <<node, depth>> rows, in order.
NodesOf(vl) == [i \in 1..Len(vl) |-> vl[i][1]]

\* The row (from 1) of a node that is in the list of nodes ns.
RowOf(ns, n) == CHOOSE i \in 1..Len(ns) : ns[i] = n

\* The ancestors of n other than n itself, the root included.
ProperAncestors(n) == {a \in Nodes : a # n /\ IsUnder(n, a)}

\* C13: in every frame the list holds exactly the nodes below the root whose
\* proper ancestors are all expanded, each once, each after its parent, a
\* node's visible descendants before its next sibling, siblings in the order
\* of children, with the depth counted from the root's children; the root is
\* not in it.
C13_VisibleIsPreorderOfExpanded ==
    pc = "session" =>
        LET vl == visible_list
            ns == NodesOf(vl)
            in == Range(ns)
        IN  /\ Root \notin in
            /\ Cardinality(in) = Len(vl)
            /\ \A n \in Nodes \ {Root} :
                   (n \in in) = (\A a \in ProperAncestors(n) : expanded[a])
            /\ \A n \in in :
                   /\ Parent(n) # Root => /\ Parent(n) \in in
                                          /\ RowOf(ns, Parent(n)) < RowOf(ns, n)
                   /\ vl[RowOf(ns, n)][2] = Cardinality(ProperAncestors(n)) - 1
            /\ \A d \in Dirs : \A i, j \in 1..Len(children[d]) :
                   (i < j /\ children[d][j] \in in) =>
                       \A m \in Subtree(children[d][i]) \cap in :
                           RowOf(ns, m) < RowOf(ns, children[d][j])

C13_Witness ==
    /\ pc = "session"
    /\ Len(visible_list) = 3
    /\ \E d \in Dirs \ {Root} : expanded[d] /\ ~expanded[Parent(d)]
    /\ \E d \in Dirs \ {Root} : ~expanded[d] /\ children[d] # <<>>
                                 /\ d \in Range(NodesOf(visible_list))

\* The cursor's row is one of the rows the frame draws (line 106).
CursorInWindow ==
    /\ window_pos <= current_index
    /\ current_index < window_pos + (height - HeaderRows)

\* C14: a move-down key whose guard holds moves the cursor one row down and
\* leaves it on a row the frame draws; when the guard fails it changes nothing.
C14_MoveDownKeepsCursorInWindow ==
    [][(pc = "session" /\ KeyDown) =>
          IF current_index < Len(visible_list) - 1
          THEN /\ current_index' = current_index + 1
               /\ CursorInWindow'
          ELSE UNCHANGED vars]_vars

\* C15: a move-up key whose guard holds moves the cursor one row up, does not
\* increase window_pos and leaves window_pos <= max(0, current_index - 3);
\* when the guard fails it changes nothing.
C15_MoveUpScrollsBack ==
    [][(pc = "session" /\ KeyUp) =>
          IF current_index > 0
          THEN /\ current_index' = current_index - 1
               /\ window_pos' <= window_pos
               /\ window_pos' <= Max(0, current_index' - 3)
               /\ window_pos' >= 0
          ELSE UNCHANGED vars]_vars

C15_Witness ==
    /\ pc = "session"
    /\ height = 5
    /\ current_index = 4
    /\ window_pos = 1
    /\ Len(visible_list) = 6

\* C16: a SPACE key on node n leaves alone every expanded flag, the cursor,
\* window_pos, the children lists, and the selected flag of every node
\* outside n's subtree, n's ancestors included.
C16_ToggleFrame ==
    [][(pc = "session" /\ ~IndexError /\ KeySpace) =>
          /\ expanded' = expanded
          /\ current_index' = current_index
          /\ window_pos' = window_pos
          /\ children' = children
          /\ fs' = fs
          /\ \A m \in Nodes \ Subtree(CursorNode) : selected'[m] = selected[m]]_vars

C16_Witness ==
    /\ pc = "session"
    /\ toggled \in Files
    /\ ~selected[toggled]
    /\ \A a \in ProperAncestors(toggled) \ {Root} : selected[a]
    /\ Cardinality(ProperAncestors(toggled)) = 3

\* C17: when the working directory is not empty, the cursor is on a row of
\* the list in every state of the session.
C17_CursorOnARow ==
    (pc = "session" /\ children[Root] # <<>>) =>
        /\ 0 <= current_index
        /\ current_index <= Len(visible_list) - 1

C17_Witness ==
    /\ pc = "session"
    /\ fs = FsSrc
    /\ ~expanded[2]
    /\ toggled = 5
    /\ current_index = Len(visible_list) - 1

\* C18: in every state of the session the cursor's row is one of the rows
\* the frame draws, and window_pos is not negative.
C18_CursorAlwaysInWindow ==
    pc = "session" => (CursorInWindow /\ window_pos >= 0)

\* C19: immediately after initialization from any leaf-path set (the tree is
\* built from selected_files and the root is forced expanded), every selected
\* File is in visible_list: every proper ancestor of every File whose path is
\* in the set is expanded.
C19_SelectedFilesVisibleAtStart ==
    [][StartSession =>
          \A f \in Files :
              (NodePath(f) \in selected_files) =>
                  /\ selected'[f]
                  /\ \A a \in ProperAncestors(f) : expanded'[a]
                  /\ f \in Range(NodesOf(visible_list))']_vars

\* The session has started from d/g/b alone: d and g are open down to b, the
\* unselected c is shown beside it, and the empty e stays closed.
C19_Witness ==
    /\ pc = "session"
    /\ fs = FsNested
    /\ toggled = None
    /\ selected_files = {NodePath(6)}
    /\ selected[6] /\ ~selected[7] /\ ~selected[5]
    /\ expanded[2] /\ expanded[5] /\ ~expanded[3]
    /\ current_index = 0 /\ window_pos = 0
    /\ {6, 7} \subseteq Range(NodesOf(visible_list))

\* C20: move-up, move-down, expand and collapse never change a selected flag;
\* and a session initialized from S in which no SPACE is handled returns on
\* ENTER exactly the paths of S that are paths of Files of the tree.
C20_NavigationKeepsSelection ==
    /\ [][(pc = "session" /\ (KeyUp \/ KeyDown \/ KeyLeft \/ KeyRight))
             => selected' = selected]_vars
    /\ [](  (pc = "finished" /\ toggled = None)
              => selected_files = InitialSelection \cap {NodePath(f) : f \in Files})

\* Started from {r, s, g}, where s is a directory and g names nothing; s was
\* expanded on the way, no SPACE was handled, and ENTER returned r alone.
C20_Witness ==
    /\ pc = "finished"
    /\ fs = FsSrc
    /\ toggled = None
    /\ InitialSelection = {<<"r">>, <<"s">>, <<"g">>}
    /\ expanded[2]
    /\ current_index > 0
    /\ selected_files = {<<"r">>}

====
